---- MODULE Spec2Model ----
(***************************************************************************)
(* Model of src/gradio_app.py: the RealTimeStreamingTester instance that   *)
(* create_interface shares between the regular button, the streaming       *)
(* button and the stop button.                                             *)
(*                                                                         *)
(* A streaming call is a generator that runs in its own worker thread, so  *)
(* it is modelled as a process whose steps are the statements that touch   *)
(* the shared flag streaming_active or the network; stop_streaming and a   *)
(* second streaming call interleave with those steps.                      *)
(*                                                                         *)
(* Bytes are naturals 0..255, a bytes object is a sequence of them, a      *)
(* temporary file is its content, and the name NamedTemporaryFile returns  *)
(* is the file's index in the call's list of created files (0 is None).    *)
(* Wall-clock values of the status text are left out; the status text is a *)
(* record of the kind of message and the numbers it prints.                *)
(*                                                                         *)
(* Left out: base_url, audio_chunks and chunk_timings (written, never read *)
(* by the code modelled here), failures of the temporary-file calls, and   *)
(* payloads of 2^32 - 36 bytes or more, for which int.to_bytes raises. The *)
(* consumer resumes the generator after every yield.                       *)
(***************************************************************************)
EXTENDS Integers, Sequences, FiniteSets, TLC

\* ------------------------------------------------------------ constants
HEADER_SIZE == 44
RIFF_SIZE_OFFSET == 4
DATA_SIZE_OFFSET == 40
RIFF_SIZE_EXTRA == 36
FINAL_RIFF_LESS == 8
SIZE_FIELD_LEN == 4
ITER_CHUNK_SIZE == 4096
HTTP_OK == 200

\* ------------------------------------------------------------ bounds
MaxBody == 56       \* bytes a response delivers at most
MaxChunks == 5      \* chunks iter_content delivers at most
MaxText == 1        \* characters of the text input at most

Calls == {1, 2}
ChunkSizes == {0, 4, 40, 44, 48}
InterleavedChunkSizes == {48}
BothChunkSizes == {48}
Seeds == {1, 200}
Chars == {" ", "a"}
Responses ==
    { [code |-> 200, body |-> ""],
      [code |-> 500, body |-> "server busy"], [code |-> 404, body |-> "Not Found"] }
RegularSizes == {0, 48}

VARIABLES
    streaming_active,   \* self.streaming_active
    pc,                 \* where each streaming call stands
    text,               \* the text argument of each streaming call
    net,                \* what the network did to each streaming call
    response,           \* status code and body of the response each call got
    seed,               \* which byte stream the server sends to each call
    chunks,             \* sizes of the chunks iter_content has delivered
    accumulated_audio, header_processed, wav_header, chunk_count, total_bytes,
    temp_files,         \* contents of the temporary files each call created
    requests_made,      \* number of requests.post calls each call issued
    yielded,            \* the results each call has yielded, in order
    loop_exit,          \* how the chunk loop of each call ended
    stop_mark,          \* history: where a call stood when the flag was first cleared
    stop_acc,           \* history: bytes accumulated at the latest stop of a running stream
    stop_seen,          \* history: stop_streaming ran after the call started
    regular             \* the call of test_regular_tts

vars == << streaming_active, pc, text, net, response, seed, chunks, accumulated_audio,
           header_processed, wav_header, chunk_count, total_bytes, temp_files,
           requests_made, yielded, loop_exit, stop_mark, stop_acc, stop_seen,
           regular >>

\* ------------------------------------------------------------ helpers
Max(a, b) == IF a >= b THEN a ELSE b
Min(a, b) == IF a <= b THEN a ELSE b
Last(s) == s[Len(s)]

RECURSIVE Sum(_)
Sum(s) == IF s = << >> THEN 0 ELSE Head(s) + Sum(Tail(s))

RECURSIVE SeqsUpTo(_, _)
SeqsUpTo(S, n) ==
    IF n = 0 THEN { << >> }
    ELSE LET shorter == SeqsUpTo(S, n - 1)
         IN shorter \cup { Append(s, x) : s \in shorter, x \in S }

Texts == SeqsUpTo(Chars, MaxText)

\* the byte the server sends at (0-based) offset i of the stream
StreamByte(s, i) == (s + 7 * i) % 256
StreamBytes(s, from, n) == [ i \in 1..n |-> StreamByte(s, from + i - 1) ]

\* ------------------------------------------------------------ str.strip
IsSpace(ch) == ch \in {" ", "\t", "\n", "\r"}

RECURSIVE lstrip(_)
lstrip(s) ==
    IF s = << >> THEN s
    ELSE IF IsSpace(Head(s)) THEN lstrip(Tail(s)) ELSE s

RECURSIVE rstrip(_)
rstrip(s) ==
    IF s = << >> THEN s
    ELSE IF IsSpace(Last(s)) THEN rstrip(SubSeq(s, 1, Len(s) - 1)) ELSE s

strip(s) == rstrip(lstrip(s))

TextIsEmptyNoStrip(t) == t = << >>
\* `if not text.strip():`
TextIsEmpty(t) == strip(t) = << >>

\* ------------------------------------------------------------ bytes, files
\* int.to_bytes(length, 'little')
to_bytes(n, length) == [ i \in 1..length |-> (n \div (256 ^ (i - 1))) % 256 ]

\* int.from_bytes(b, 'little')
RECURSIVE from_bytes(_)
from_bytes(b) == IF b = << >> THEN 0 ELSE Head(b) + 256 * from_bytes(Tail(b))

\* b[from:] of a bytes object
SliceFrom(b, from) == SubSeq(b, from + 1, Len(b))
\* b[:to] of a bytes object
SliceTo(b, to) == SubSeq(b, 1, Min(to, Len(b)))

\* file.seek(at); file.write(data) on a file of content f
write_at(f, at, data) ==
    [ i \in 1..Max(Len(f), at + Len(data)) |->
        IF i > at /\ i <= at + Len(data) THEN data[i - at] ELSE f[i] ]

\* ------------------------------------------------------------ results
None == 0
NoMark == [k |-> -1, n |-> -1]
NoResponse == [code |-> 0, body |-> ""]

St(kind, code, body, n, bytes) ==
    [kind |-> kind, code |-> code, body |-> body, chunks |-> n, bytes |-> bytes]
Msg(kind) == St(kind, 0, "", 0, 0)
Result(audio, status, info) == [audio |-> audio, status |-> status, info |-> info]

\* ------------------------------------------------------------ the chunk loop's pieces
\* `accumulated_audio += chunk`
Accumulate(acc, chunk) == acc \o chunk

HeaderCaptureFromChunk(hp, hdr, acc, chunk) ==
    IF ~hp /\ Len(acc) >= HEADER_SIZE
    THEN [processed |-> TRUE, header |-> SliceTo(chunk, HEADER_SIZE)]
    ELSE [processed |-> hp, header |-> hdr]
\* `if not header_processed and len(accumulated_audio) >= 44:` (acc is the
\* buffer after the chunk was appended)
HeaderCapture(hp, hdr, acc, chunk) ==
    IF ~hp /\ Len(acc) >= HEADER_SIZE
    THEN [processed |-> TRUE, header |-> SliceTo(acc, HEADER_SIZE)]
    ELSE [processed |-> hp, header |-> hdr]

ShouldEmitAtHeader(hp, acc) == hp /\ Len(acc) >= HEADER_SIZE
\* `if header_processed and len(accumulated_audio) > 44:`
ShouldEmit(hp, acc) == hp /\ Len(acc) > HEADER_SIZE

IntermediateFileBadRiff(hdr, acc) ==
    LET audio_data == SliceFrom(acc, HEADER_SIZE)
        f1 == write_at(<< >>, 0, hdr)
        f2 == write_at(f1, Len(f1), audio_data)
        f3 == write_at(f2, RIFF_SIZE_OFFSET,
                       to_bytes(Len(audio_data) + HEADER_SIZE, SIZE_FIELD_LEN))
    IN write_at(f3, DATA_SIZE_OFFSET, to_bytes(Len(audio_data), SIZE_FIELD_LEN))
\* the temporary file of one intermediate emission
IntermediateFile(hdr, acc) ==
    LET audio_data == SliceFrom(acc, HEADER_SIZE)
        f1 == write_at(<< >>, 0, hdr)
        f2 == write_at(f1, Len(f1), audio_data)
        f3 == write_at(f2, RIFF_SIZE_OFFSET,
                       to_bytes(Len(audio_data) + RIFF_SIZE_EXTRA, SIZE_FIELD_LEN))
    IN write_at(f3, DATA_SIZE_OFFSET, to_bytes(Len(audio_data), SIZE_FIELD_LEN))

FinalFileNoPayload(hdr, acc) ==
    LET f1 == write_at(<< >>, 0, hdr)
        f3 == write_at(f1, RIFF_SIZE_OFFSET,
                       to_bytes(Len(acc) - FINAL_RIFF_LESS, SIZE_FIELD_LEN))
    IN write_at(f3, DATA_SIZE_OFFSET, to_bytes(Len(acc) - HEADER_SIZE, SIZE_FIELD_LEN))
\* the temporary file of the final emission
FinalFile(hdr, acc) ==
    LET f1 == write_at(<< >>, 0, hdr)
        f2 == write_at(f1, Len(f1), SliceFrom(acc, HEADER_SIZE))
        f3 == write_at(f2, RIFF_SIZE_OFFSET,
                       to_bytes(Len(acc) - FINAL_RIFF_LESS, SIZE_FIELD_LEN))
    IN write_at(f3, DATA_SIZE_OFFSET, to_bytes(Len(acc) - HEADER_SIZE, SIZE_FIELD_LEN))

FinalHasAudioAtHeader(acc) == acc # << >> /\ Len(acc) >= HEADER_SIZE
\* `if accumulated_audio and len(accumulated_audio) > 44:`
FinalHasAudio(acc) == acc # << >> /\ Len(acc) > HEADER_SIZE

LoopNeverBreaks(active) == FALSE
\* `if not self.streaming_active: break`
LoopBreaks(active) == ~active

IsHttpErrorServerOnly(code) == code >= 500
\* `if response.status_code != 200:`
IsHttpError(code) == code # HTTP_OK

\* ------------------------------------------------------------ initial state
Init ==
    /\ streaming_active = FALSE
    /\ pc = [c \in Calls |-> "idle"]
    /\ text = [c \in Calls |-> << >>]
    /\ net = [c \in Calls |-> "none"]
    /\ response = [c \in Calls |-> NoResponse]
    /\ seed = [c \in Calls |-> 0]
    /\ chunks = [c \in Calls |-> << >>]
    /\ accumulated_audio = [c \in Calls |-> << >>]
    /\ header_processed = [c \in Calls |-> FALSE]
    /\ wav_header = [c \in Calls |-> << >>]
    /\ chunk_count = [c \in Calls |-> 0]
    /\ total_bytes = [c \in Calls |-> 0]
    /\ temp_files = [c \in Calls |-> << >>]
    /\ requests_made = [c \in Calls |-> 0]
    /\ yielded = [c \in Calls |-> << >>]
    /\ loop_exit = [c \in Calls |-> "none"]
    /\ stop_mark = [c \in Calls |-> NoMark]
    /\ stop_acc = [c \in Calls |-> -1]
    /\ stop_seen = [c \in Calls |-> FALSE]
    /\ regular = [called |-> FALSE, text |-> << >>, net |-> "none",
                  response |-> NoResponse, requests |-> 0,
                  files |-> << >>, audio |-> None, status |-> Msg("none")]

locals == << accumulated_audio, header_processed, wav_header, chunk_count, total_bytes >>
history == << stop_mark, stop_acc, stop_seen >>

\* ------------------------------------------------------------ stream_tts_realtime
\* lines 85-101: the text check, before the try block
Start(c) ==
    /\ pc[c] = "idle"
    /\ \E t \in Texts :
        /\ text' = [text EXCEPT ![c] = t]
        /\ IF TextIsEmpty(t)
           THEN /\ yielded' = [yielded EXCEPT ![c] =
                        Append(@, Result(None, Msg("enter_text"), "No audio generated"))]
                /\ pc' = [pc EXCEPT ![c] = "done"]
           ELSE /\ pc' = [pc EXCEPT ![c] = "reset"]
                /\ UNCHANGED yielded
    /\ UNCHANGED << streaming_active, net, response, seed, chunks, locals, temp_files,
                    requests_made, loop_exit, history, regular >>

\* lines 103-106: reset streaming state
Reset(c) ==
    /\ pc[c] = "reset"
    /\ streaming_active' = TRUE
    /\ pc' = [pc EXCEPT ![c] = "post"]
    /\ UNCHANGED << text, net, response, seed, chunks, locals, temp_files, requests_made,
                    yielded, loop_exit, history, regular >>

\* lines 109-128: requests.post returns a response
PostResponds(c) ==
    /\ pc[c] = "post"
    /\ requests_made' = [requests_made EXCEPT ![c] = @ + 1]
    /\ \E r \in Responses :
        /\ response' = [response EXCEPT ![c] = r]
        /\ IF IsHttpError(r.code)
           THEN /\ yielded' = [yielded EXCEPT ![c] =
                       Append(@, Result(None, St("http_error", r.code, r.body, 0, 0),
                                        "Error occurred"))]
                /\ net' = [net EXCEPT ![c] = "http_error"]
                /\ pc' = [pc EXCEPT ![c] = "finally"]
                /\ UNCHANGED << seed, locals >>
           ELSE /\ \E s \in Seeds : seed' = [seed EXCEPT ![c] = s]
                /\ net' = [net EXCEPT ![c] = IF r.code = HTTP_OK THEN "ok" ELSE "http_error"]
                /\ chunk_count' = [chunk_count EXCEPT ![c] = 0]
                /\ total_bytes' = [total_bytes EXCEPT ![c] = 0]
                /\ accumulated_audio' = [accumulated_audio EXCEPT ![c] = << >>]
                /\ header_processed' = [header_processed EXCEPT ![c] = FALSE]
                /\ wav_header' = [wav_header EXCEPT ![c] = << >>]
                /\ pc' = [pc EXCEPT ![c] = "iter"]
                /\ UNCHANGED yielded
    /\ UNCHANGED << streaming_active, text, chunks, temp_files, loop_exit,
                    history, regular >>

\* lines 109-115, 212-215: requests.post raises Timeout or another RequestException
PostRaises(c) ==
    /\ pc[c] = "post"
    /\ requests_made' = [requests_made EXCEPT ![c] = @ + 1]
    /\ \E e \in {"timeout", "network_error"} :
        /\ net' = [net EXCEPT ![c] = e]
        /\ yielded' = [yielded EXCEPT ![c] =
                IF e = "timeout"
                THEN Append(@, Result(None, Msg("timeout"), "Timeout error"))
                ELSE Append(@, Result(None, Msg("network_error"), "Network error"))]
    /\ pc' = [pc EXCEPT ![c] = "finally"]
    /\ UNCHANGED << streaming_active, text, response, seed, chunks, locals,
                    temp_files, loop_exit, history, regular >>

\* line 130: iter_content delivers the next chunk, of at most 4096 bytes
IterChunk(c, sizes) ==
    /\ pc[c] = "iter"
    /\ Len(chunks[c]) < MaxChunks
    /\ \E n \in sizes :
        /\ n <= ITER_CHUNK_SIZE
        /\ Sum(chunks[c]) + n <= MaxBody
        /\ chunks' = [chunks EXCEPT ![c] = Append(@, n)]
    /\ pc' = [pc EXCEPT ![c] = "check"]
    /\ UNCHANGED << streaming_active, text, net, response, seed, locals, temp_files,
                    requests_made, yielded, loop_exit, history, regular >>

\* line 130: the response is exhausted and the loop ends
IterExhausted(c) ==
    /\ pc[c] = "iter"
    /\ loop_exit' = [loop_exit EXCEPT ![c] = "exhausted"]
    /\ pc' = [pc EXCEPT ![c] = "final"]
    /\ UNCHANGED << streaming_active, text, net, response, seed, chunks, locals, temp_files,
                    requests_made, yielded, history, regular >>

\* lines 130, 214-215: reading the response raises a RequestException
IterRaises(c) ==
    /\ pc[c] = "iter"
    /\ net' = [net EXCEPT ![c] = "network_error"]
    /\ loop_exit' = [loop_exit EXCEPT ![c] = "raised"]
    /\ yielded' = [yielded EXCEPT ![c] =
            Append(@, Result(None, Msg("network_error"), "Network error"))]
    /\ pc' = [pc EXCEPT ![c] = "finally"]
    /\ UNCHANGED << streaming_active, text, response, seed, chunks, locals,
                    temp_files, requests_made, history, regular >>

\* lines 131-132: the liveness check at the top of the loop body
Check(c) ==
    /\ pc[c] = "check"
    /\ IF LoopBreaks(streaming_active)
       THEN /\ pc' = [pc EXCEPT ![c] = "final"]
            /\ loop_exit' = [loop_exit EXCEPT ![c] = "break"]
       ELSE /\ pc' = [pc EXCEPT ![c] = "body"]
            /\ UNCHANGED loop_exit
    /\ UNCHANGED << streaming_active, text, net, response, seed, chunks, locals, temp_files,
                    requests_made, yielded, history, regular >>

\* lines 134-179: the rest of the loop body, up to and including the yield
Body(c) ==
    /\ pc[c] = "body"
    /\ LET n     == Last(chunks[c])
           chunk == StreamBytes(seed[c], Sum(chunks[c]) - n, n)
           acc   == Accumulate(accumulated_audio[c], chunk)
           cap   == HeaderCapture(header_processed[c], wav_header[c], acc, chunk)
       IN IF chunk = << >>
          THEN UNCHANGED << locals, temp_files, yielded >>
          ELSE /\ accumulated_audio' = [accumulated_audio EXCEPT ![c] = acc]
               /\ total_bytes' = [total_bytes EXCEPT ![c] = @ + Len(chunk)]
               /\ chunk_count' = [chunk_count EXCEPT ![c] = @ + 1]
               /\ header_processed' = [header_processed EXCEPT ![c] = cap.processed]
               /\ wav_header' = [wav_header EXCEPT ![c] = cap.header]
               /\ IF ShouldEmit(cap.processed, acc)
                  THEN /\ temp_files' = [temp_files EXCEPT ![c] =
                                Append(@, IntermediateFile(cap.header, acc))]
                       /\ yielded' = [yielded EXCEPT ![c] =
                                Append(@, Result(Len(temp_files[c]) + 1,
                                    St("chunk", 0, "", chunk_count[c] + 1, Len(chunk)),
                                    "Streaming"))]
                  ELSE UNCHANGED << temp_files, yielded >>
    /\ pc' = [pc EXCEPT ![c] = "iter"]
    /\ UNCHANGED << streaming_active, text, net, response, seed, chunks, requests_made,
                    loop_exit, history, regular >>

FinalStoppedIsError(c) ==
    /\ pc[c] = "final"
    /\ IF FinalHasAudio(accumulated_audio[c]) /\ streaming_active
       THEN /\ temp_files' = [temp_files EXCEPT ![c] =
                    Append(@, FinalFile(wav_header[c], accumulated_audio[c]))]
            /\ yielded' = [yielded EXCEPT ![c] =
                    Append(@, Result(Len(temp_files[c]) + 1,
                        St("completed", 0, "", chunk_count[c], total_bytes[c]),
                        "Streaming completed"))]
       ELSE /\ yielded' = [yielded EXCEPT ![c] =
                    Append(@, Result(None,
                        St("no_audio_data", 0, "", chunk_count[c], total_bytes[c]),
                        "No audio generated"))]
            /\ UNCHANGED temp_files
    /\ pc' = [pc EXCEPT ![c] = "finally"]
    /\ UNCHANGED << streaming_active, text, net, response, seed, chunks, locals,
                    requests_made, loop_exit, history, regular >>

\* lines 181-210: final processing
Final(c) ==
    /\ pc[c] = "final"
    /\ IF FinalHasAudio(accumulated_audio[c])
       THEN /\ temp_files' = [temp_files EXCEPT ![c] =
                    Append(@, FinalFile(wav_header[c], accumulated_audio[c]))]
            /\ yielded' = [yielded EXCEPT ![c] =
                    Append(@, Result(Len(temp_files[c]) + 1,
                        St("completed", 0, "", chunk_count[c], total_bytes[c]),
                        "Streaming completed"))]
       ELSE /\ yielded' = [yielded EXCEPT ![c] =
                    Append(@, Result(None,
                        St("no_audio_data", 0, "", chunk_count[c], total_bytes[c]),
                        "No audio generated"))]
            /\ UNCHANGED temp_files
    /\ pc' = [pc EXCEPT ![c] = "finally"]
    /\ UNCHANGED << streaming_active, text, net, response, seed, chunks, locals, requests_made,
                    loop_exit, history, regular >>

\* lines 218-219: the finally block
Finally(c) ==
    /\ pc[c] = "finally"
    /\ streaming_active' = FALSE
    /\ pc' = [pc EXCEPT ![c] = "done"]
    /\ UNCHANGED << text, net, response, seed, chunks, locals, temp_files, requests_made,
                    yielded, loop_exit, history, regular >>

\* ------------------------------------------------------------ stop_streaming
Active(c) == pc[c] \notin {"idle", "done"}
\* chunks whose loop body has run to its end
Processed(c) == IF pc[c] \in {"check", "body"} THEN Len(chunks[c]) - 1 ELSE Len(chunks[c])

\* lines 221-224 (the history variables record where each active call stood)
stop_streaming ==
    /\ streaming_active' = FALSE
    /\ stop_mark' = [c \in Calls |->
            IF Active(c) /\ streaming_active /\ stop_mark[c] = NoMark
            THEN [k |-> Processed(c), n |-> Len(yielded[c])]
            ELSE stop_mark[c]]
    /\ stop_acc' = [c \in Calls |->
            IF Active(c) /\ net[c] = "ok" THEN Len(accumulated_audio[c]) ELSE stop_acc[c]]
    /\ stop_seen' = [c \in Calls |-> stop_seen[c] \/ Active(c)]
    /\ UNCHANGED << pc, text, net, response, seed, chunks, locals, temp_files, requests_made,
                    yielded, loop_exit, regular >>

\* ------------------------------------------------------------ test_regular_tts
\* lines 33-81, one call from its first line to its return
Returned(t, kind, r, files, audio, status) ==
    [called |-> TRUE, text |-> t, net |-> kind, response |-> r,
     requests |-> IF kind = "none" THEN 0 ELSE 1,
     files |-> files, audio |-> audio, status |-> status]

test_regular_tts ==
    /\ ~regular.called
    /\ \E t \in Texts :
        IF TextIsEmpty(t)
        THEN regular' = Returned(t, "none", NoResponse, << >>, None, Msg("enter_text"))
        ELSE \/ \E r \in Responses :
                  IF IsHttpError(r.code)
                  THEN regular' = Returned(t, "http_error", r, << >>, None,
                                           St("http_error", r.code, r.body, 0, 0))
                  ELSE \E s \in Seeds, n \in RegularSizes :
                         regular' = Returned(t,
                                        IF r.code = HTTP_OK THEN "ok" ELSE "http_error",
                                        r, << StreamBytes(s, 0, n) >>, 1,
                                        St("regular_completed", 0, "", 0, n))
             \/ \E e \in {"timeout", "network_error"} :
                  regular' = Returned(t, e, NoResponse, << >>, None, Msg(e))
    /\ UNCHANGED << streaming_active, pc, text, net, response, seed, chunks, locals,
                    temp_files, requests_made, yielded, loop_exit, history >>

\* ------------------------------------------------------------ specifications
Stream(c, sizes) ==
    \/ Start(c)
    \/ Reset(c)
    \/ PostResponds(c)
    \/ PostRaises(c)
    \/ IterChunk(c, sizes)
    \/ IterExhausted(c)
    \/ IterRaises(c)
    \/ Check(c)
    \/ Body(c)
    \/ Final(c)
    \/ Finally(c)

\* one streaming call and the stop button
Next ==
    \/ Stream(1, ChunkSizes)
    \/ stop_streaming

Spec == Init /\ [][Next]_vars

\* the regular call, one streaming call and the stop button
NextBoth ==
    \/ Stream(1, BothChunkSizes)
    \/ stop_streaming
    \/ test_regular_tts

SpecBoth == Init /\ [][NextBoth]_vars

\* two streaming calls on the shared instance and the stop button
NextInterleaved ==
    \/ \E c \in Calls : Stream(c, InterleavedChunkSizes)
    \/ stop_streaming

SpecInterleaved == Init /\ [][NextInterleaved]_vars

\* ------------------------------------------------------------ vocabulary of the claims
IsArtifact(r) == r.audio # None
FileOf(c, r) == temp_files[c][r.audio]
PayloadLen(f) == Len(f) - HEADER_SIZE
Field(f, offset) == from_bytes(SubSeq(f, offset + 1, offset + SIZE_FIELD_LEN))
InSizeField(i) ==
    \/ i \in (RIFF_SIZE_OFFSET + 1)..(RIFF_SIZE_OFFSET + SIZE_FIELD_LEN)
    \/ i \in (DATA_SIZE_OFFSET + 1)..(DATA_SIZE_OFFSET + SIZE_FIELD_LEN)
Ended(c) == pc[c] \in {"finally", "done"}
Artifacts(c) == { i \in 1..Len(yielded[c]) : IsArtifact(yielded[c][i]) }
Intermediates(c) == { i \in 1..Len(yielded[c]) : yielded[c][i].status.kind = "chunk" }

\* the chunks the loop body has taken: a chunk still before its liveness check or
\* inside the body is not taken yet, and the chunk read before a break never is
Taken(c) ==
    IF pc[c] \in {"check", "body"} \/ loop_exit[c] = "break"
    THEN SubSeq(chunks[c], 1, Len(chunks[c]) - 1)
    ELSE chunks[c]
\* bytes received so far
Received(c) == Sum(Taken(c))
\* bytes delivered by the first j chunks
Through(c, j) == Sum(SubSeq(chunks[c], 1, Min(j, Len(chunks[c]))))
\* the taken chunks that are non-empty and leave more than the header accumulated
Emitting(c) ==
    { j \in 1..Len(Taken(c)) : Taken(c)[j] > 0 /\ Sum(SubSeq(Taken(c), 1, j)) > HEADER_SIZE }

\* ------------------------------------------------------------ C1
\* C1: the latest artifact a streaming call has emitted, intermediate or final, is a
\* file of exactly 44 + N bytes, N being the bytes received so far minus 44; its
\* little-endian field at offset 4 decodes to N + 36 and the one at offset 40 to N.
\* Every emitted artifact is the latest one in the state after its emission.
C1_ArtifactSizes ==
    \A c \in Calls :
        (yielded[c] # << >> /\ IsArtifact(Last(yielded[c]))) =>
            LET f == FileOf(c, Last(yielded[c]))
                N == Received(c) - HEADER_SIZE
            IN /\ N > 0
               /\ Len(f) = HEADER_SIZE + N
               /\ Field(f, RIFF_SIZE_OFFSET) = N + RIFF_SIZE_EXTRA
               /\ Field(f, DATA_SIZE_OFFSET) = N

\* a header split over two chunks, then two intermediate artifacts and the final one
C1_Witness ==
    /\ pc[1] = "done"
    /\ chunks[1] = << 40, 4, 4, 4 >>
    /\ Cardinality(Artifacts(1)) = 3
    /\ Field(FileOf(1, Last(yielded[1])), DATA_SIZE_OFFSET) = 8

\* ------------------------------------------------------------ C2
\* C2: once the header is captured, the header template is the first 44 bytes received
\* on the stream, whatever the chunk boundaries; it never changes afterwards, and every
\* artifact carries it outside the two size fields. Before the capture there is no
\* template and no artifact.
C2_HeaderIsFirst44 ==
    \A c \in Calls :
        /\ header_processed[c] =>
              /\ wav_header[c] = StreamBytes(seed[c], 0, HEADER_SIZE)
              /\ \A i \in Artifacts(c) :
                    \A b \in 1..HEADER_SIZE :
                        InSizeField(b) \/
                        FileOf(c, yielded[c][i])[b] = StreamByte(seed[c], b - 1)
        /\ ~header_processed[c] => (wav_header[c] = << >> /\ Artifacts(c) = {})
        /\ header_processed[c] <=> Received(c) >= HEADER_SIZE

\* the first 44 bytes arrive split over three chunks and artifacts follow
C2_Witness ==
    /\ pc[1] = "done"
    /\ chunks[1] = << 40, 0, 4, 4 >>
    /\ Cardinality(Artifacts(1)) = 2
    /\ wav_header[1] = StreamBytes(seed[1], 0, HEADER_SIZE)

\* ------------------------------------------------------------ C5
\* C5: in the order of emission, the payload length of an artifact is never smaller
\* than that of an artifact emitted before it, the final one included.
C5_PayloadMonotone ==
    \A c \in Calls :
        \A i, j \in Artifacts(c) :
            i < j => PayloadLen(FileOf(c, yielded[c][i])) <= PayloadLen(FileOf(c, yielded[c][j]))

\* two growing intermediate artifacts and a final one, after a stop
C5_Witness ==
    /\ pc[1] = "done"
    /\ loop_exit[1] = "break"
    /\ Cardinality(Artifacts(1)) = 3
    /\ PayloadLen(FileOf(1, yielded[1][1])) < PayloadLen(FileOf(1, yielded[1][2]))
    /\ PayloadLen(FileOf(1, yielded[1][2])) = PayloadLen(FileOf(1, yielded[1][3]))

\* ------------------------------------------------------------ C7
\* C7: the intermediate artifacts are exactly one per taken non-empty chunk that
\* leaves more than 44 bytes accumulated; when the call ends without a transport
\* error they are all it yielded before one final result, which, if there was an
\* intermediate artifact, is an artifact with the same bytes as the last of them.
\* A 48-byte stream in one chunk gives one intermediate artifact with fields 40 and 4
\* and then one identical final artifact.
C7_OnePerChunkThenFinal ==
    \A c \in Calls :
        LET m == Cardinality(Emitting(c)) IN
        /\ net[c] = "ok" =>
              /\ Cardinality(Intermediates(c)) = m
              /\ Intermediates(c) = 1..m
              /\ \A i \in Intermediates(c) : IsArtifact(yielded[c][i])
        /\ (net[c] = "ok" /\ Ended(c)) =>
              /\ Len(yielded[c]) = m + 1
              /\ m > 0 =>
                    /\ IsArtifact(yielded[c][m + 1])
                    /\ yielded[c][m + 1].status.kind = "completed"
                    /\ yielded[c][m + 1].audio # yielded[c][m].audio
                    /\ FileOf(c, yielded[c][m + 1]) = FileOf(c, yielded[c][m])
        /\ (net[c] = "ok" /\ Ended(c) /\ Taken(c) = << 48 >>) =>
              /\ Len(yielded[c]) = 2
              /\ Field(FileOf(c, yielded[c][1]), RIFF_SIZE_OFFSET) = 40
              /\ Field(FileOf(c, yielded[c][1]), DATA_SIZE_OFFSET) = 4

\* the example stream: header and four payload bytes in one chunk
C7_Witness ==
    /\ pc[1] = "done"
    /\ net[1] = "ok"
    /\ chunks[1] = << 48 >>
    /\ Len(yielded[1]) = 2
    /\ FileOf(1, yielded[1][1]) = FileOf(1, yielded[1][2])

\* ------------------------------------------------------------ C3
\* C3: when stop_streaming clears the flag of the one running streaming call after
\* chunk k has been processed, no chunk after chunk k+1 is taken: the buffer and the
\* payload of every artifact emitted afterwards hold the stream's bytes up to the end
\* of chunk k+1 at most.
C3_StopBoundsPayload ==
    \A c \in Calls :
        stop_mark[c] # NoMark =>
            LET limit == Through(c, stop_mark[c].k + 1) IN
            /\ Len(Taken(c)) <= stop_mark[c].k + 1
            /\ Len(accumulated_audio[c]) <= limit
            /\ \A i \in Artifacts(c) :
                  i > stop_mark[c].n =>
                      LET f == FileOf(c, yielded[c][i]) IN
                      /\ Len(f) <= limit
                      /\ SliceFrom(f, HEADER_SIZE) =
                             StreamBytes(seed[c], HEADER_SIZE, PayloadLen(f))

\* the flag is cleared while chunk 3 is in the loop body: chunk 3 is still taken,
\* chunk 4 is read and dropped, and the final artifact holds chunks 1 to 3
C3_Witness ==
    /\ pc[1] = "done"
    /\ stop_mark[1].k = 2
    /\ chunks[1] = << 40, 4, 4, 4 >>
    /\ IsArtifact(Last(yielded[1]))
    /\ PayloadLen(FileOf(1, Last(yielded[1]))) = 4

\* ------------------------------------------------------------ C4
\* C4 as stated: a streaming call that was stopped after it had accumulated more than
\* 44 bytes ends with a final artifact that holds the payload accumulated up to the
\* stop, and a completion summary.
C4_StopAlwaysEndsWithArtifact ==
    \A c \in Calls :
        (pc[c] = "done" /\ stop_acc[c] > HEADER_SIZE) =>
            /\ IsArtifact(Last(yielded[c]))
            /\ Last(yielded[c]).status.kind = "completed"
            /\ Len(FileOf(c, Last(yielded[c]))) >= stop_acc[c]

\* C4 amended: the same, provided no read of the response raises a transport error
\* after the stop; the stopped call takes no chunk after the one in flight. If the read
\* in flight raises, the last result is the network-error status without an artifact.
C4_StopEndsWithArtifactUnlessReadRaises ==
    \A c \in Calls :
        (Ended(c) /\ stop_acc[c] > HEADER_SIZE) =>
            /\ net[c] \in {"ok", "network_error"}
            /\ Len(Taken(c)) <= stop_mark[c].k + 1
            /\ net[c] = "ok" =>
                  LET r == Last(yielded[c]) IN
                  /\ IsArtifact(r)
                  /\ r.status.kind = "completed"
                  /\ r.status.bytes = Received(c)
                  /\ Len(FileOf(c, r)) = Received(c)
                  /\ Len(FileOf(c, r)) >= stop_acc[c]
                  /\ SliceFrom(FileOf(c, r), HEADER_SIZE) =
                         StreamBytes(seed[c], HEADER_SIZE, Received(c) - HEADER_SIZE)
            /\ net[c] = "network_error" =>
                  /\ ~IsArtifact(Last(yielded[c]))
                  /\ Last(yielded[c]).status.kind = "network_error"

\* a call stopped with four payload bytes accumulated breaks out of the loop and
\* ends with the final artifact
C4_Witness ==
    /\ pc[1] = "done"
    /\ stop_acc[1] = 48
    /\ loop_exit[1] = "break"
    /\ net[1] = "ok"
    /\ IsArtifact(Last(yielded[1]))
    /\ Last(yielded[1]).status.kind = "completed"

\* ------------------------------------------------------------ C6
\* C6: a call answered with status 200 and not hit by a transport error that has
\* received no more than 44 bytes has created no file and emitted no artifact, and
\* when it ends its only result is the "no audio data" status with no artifact.
C6_NoPayloadNoArtifact ==
    \A c \in Calls :
        (net[c] = "ok" /\ Received(c) <= HEADER_SIZE) =>
            /\ temp_files[c] = << >>
            /\ Artifacts(c) = {}
            /\ ~Ended(c) => yielded[c] = << >>
            /\ Ended(c) =>
                  /\ Len(yielded[c]) = 1
                  /\ yielded[c][1].audio = None
                  /\ yielded[c][1].status.kind = "no_audio_data"

\* exactly the header was taken (in two chunks) before a stop dropped the next chunk
C6_Witness ==
    /\ pc[1] = "done"
    /\ net[1] = "ok"
    /\ chunks[1] = << 40, 4, 4 >>
    /\ loop_exit[1] = "break"
    /\ header_processed[1]
    /\ Len(yielded[1]) = 1
    /\ yielded[1][1].status.kind = "no_audio_data"

\* ------------------------------------------------------------ C8
\* C8: a response with a status other than 200 ends the request at once on both paths:
\* the streaming call yields one result without an artifact and goes to its end, the
\* regular call returns no artifact, the status carries the status code and the
\* response body, and no file is created and no chunk is read for that call.
C8_HttpErrorAborts ==
    /\ \A c \in Calls :
          response[c].code \notin {0, HTTP_OK} =>
              /\ Ended(c)
              /\ Len(yielded[c]) = 1
              /\ yielded[c][1].audio = None
              /\ yielded[c][1].status.kind = "http_error"
              /\ yielded[c][1].status.code = response[c].code
              /\ yielded[c][1].status.body = response[c].body
              /\ temp_files[c] = << >>
              /\ chunks[c] = << >>
    /\ regular.response.code \notin {0, HTTP_OK} =>
          /\ regular.audio = None
          /\ regular.files = << >>
          /\ regular.status.kind = "http_error"
          /\ regular.status.code = regular.response.code
          /\ regular.status.body = regular.response.body

\* the example of the specification on the regular path, and a 404 on the stream
C8_Witness ==
    /\ regular.called
    /\ regular.response = [code |-> 500, body |-> "server busy"]
    /\ regular.status.code = 500
    /\ regular.status.body = "server busy"
    /\ pc[1] = "done"
    /\ response[1].code = 404
    /\ Len(yielded[1]) = 1

\* ------------------------------------------------------------ C9
IsBlank(t) == \A i \in 1..Len(t) : t[i] \in {" ", "\t", "\n", "\r"}

\* C9: a call with an empty or whitespace-only text issues no HTTP request on either
\* path: the streaming call yields one error result without an artifact and is over,
\* the regular call returns no artifact and the error status.
C9_EmptyTextNoRequest ==
    /\ \A c \in Calls :
          (pc[c] # "idle" /\ IsBlank(text[c])) =>
              /\ pc[c] = "done"
              /\ requests_made[c] = 0
              /\ temp_files[c] = << >>
              /\ Len(yielded[c]) = 1
              /\ yielded[c][1].audio = None
              /\ yielded[c][1].status.kind = "enter_text"
    /\ (regular.called /\ IsBlank(regular.text)) =>
          /\ regular.requests = 0
          /\ regular.files = << >>
          /\ regular.audio = None
          /\ regular.status.kind = "enter_text"

\* both paths called with a single space
C9_Witness ==
    /\ pc[1] = "done"
    /\ text[1] = << " " >>
    /\ Len(yielded[1]) = 1
    /\ regular.called
    /\ regular.text = << " " >>
    /\ regular.requests = 0

\* ------------------------------------------------------------ C10
\* C10: with two streaming calls interleaved on the shared instance, a call breaks
\* out of its chunk loop before the response is exhausted only if stop_streaming ran
\* after that call started.
C10_OnlyStopCutsShort ==
    \A c \in Calls : loop_exit[c] = "break" => stop_seen[c]

====
